---- MODULE Spec2Model ----
(***************************************************************************)
(* Model of src/telegram_backend.py: the batch endpoint                    *)
(* scrape_telegram_members (/api/scrape) and the streaming endpoint        *)
(* scrape_telegram_members_progressive / event_stream                      *)
(* (/api/scrape-progress), with the pagination loops scrape_group_members  *)
(* and scrape_group_members_progressive they drive.                        *)
(*                                                                         *)
(* One behaviour serves the same request once on each endpoint, against    *)
(* the same remote (Telegram) behaviour: harvest "batch", then harvest     *)
(* "stream".  Each harvest is served by a freshly started process          *)
(* (telegram_client = None).                                               *)
(*                                                                         *)
(* Three further specifications use the same steps.  SpecReorder calls     *)
(* each endpoint a second time with the lines of the request reversed.     *)
(* SpecConcurrent serves the two requests at the same time, their steps    *)
(* interleaved, in a process whose client is connected.  SpecClient        *)
(* follows get_telegram_client await by await for requests that call it    *)
(* while others are suspended in it.                                       *)
(*                                                                         *)
(* Python values: None and 0 are both falsy where the code tests           *)
(* `if request.member_limit` / `if limit`, so an absent limit is 0.        *)
(* A str is a sequence of tokens (a URL prefix, "@", a name, whitespace),  *)
(* so that strip() and the identifier clean-up act on it.                  *)
(***************************************************************************)
EXTENDS Integers, Sequences, FiniteSets, TLC

\* ---------------------------------------------------------------- bounds
MaxSources == 2     \* lines in request.group_links
MaxLimit == 4       \* request.member_limit is at most MaxLimit
MaxPage == 2        \* records the remote returns per page, at most

\* ------------------------------------------------------ program constants
BatchPageCap == 200
StreamPageCap == 50

Harvests == {"batch", "stream"}

VARIABLES
    request,          \* [h -> [group_links, member_limit]]   ScrapeRequest
    pageSize,         \* remote: records per page
    clientOutcome,    \* remote: what TelegramClient.start / is_user_authorized do
    telegram_client,  \* [h -> state of the process's global client]
    pc,               \* [h -> position in the handler]
    group_links,      \* [h -> parsed list of links]
    gi,               \* [h -> 1-based position of the for loop in group_links]
    all_contacts,     \* [h -> list of ContactInfo]
    processed_groups, \* [h -> counter of event_stream]
    pg,               \* [h -> locals of the running pagination loop]
    events,           \* [h -> events yielded by event_stream so far]
    response,         \* [h -> HTTP response of the batch endpoint]
    calls,            \* history: [h -> calls made on the Telegram client]
    outcomes,         \* history: [h -> how each source's processing ended]
    previous,         \* history: [h -> results of the requests the endpoint served before]
    concurrent,       \* scheduling: the two requests are served at the same time
    instances,        \* get_telegram_client, await by await: the TelegramClient objects made
    current,          \* ... the object the global telegram_client names (0: None)
    gtc               \* ... [caller -> where its call of get_telegram_client stands]

vars == <<request, pageSize, clientOutcome, telegram_client, pc, group_links, gi,
          all_contacts, processed_groups, pg, events, response, calls, outcomes,
          previous, concurrent, instances, current, gtc>>

\* The endpoints that call get_telegram_client: the two harvests and /health.
Callers == Harvests \cup {"health"}

NotCalled == [at |-> "idle", on |-> 0, result |-> 0]

\* What the steps of the two harvests never touch.
process == <<previous, concurrent, instances, current, gtc>>

\* ------------------------------------------------------------ helpers
Min(a, b) == IF a <= b THEN a ELSE b

Range(s) == {s[j] : j \in 1..Len(s)}

RECURSIVE SumSeq(_)
SumSeq(s) == IF s = <<>> THEN 0 ELSE Head(s) + SumSeq(Tail(s))

Take(s, n) == SubSeq(s, 1, Min(n, Len(s)))

\* --------------------------------------------------- the remote (Telegram)
\* A raw participant: telethon User, or another type (UserEmpty) when
\* is_user is FALSE.
RawUser(i, fn, ln, un) ==
    [id |-> i, first_name |-> fn, last_name |-> ln, username |-> un, is_user |-> TRUE]
RawOther(i) ==
    [id |-> i, first_name |-> "", last_name |-> "", username |-> "", is_user |-> FALSE]

\* The groups the remote knows.  resolve: what client.get_entity does;
\* users: the participants in the remote's order; honors: whether a page is
\* cut to the requested limit; failAt/failKind: the fetch of that ordinal
\* (within one pagination) raises.
Remote ==
    [a |-> [resolve |-> "ok", honors |-> TRUE, failAt |-> 0, failKind |-> "none",
            users |-> <<RawUser(1, "Ann", "Lee", "ann"), RawUser(2, "Bob", "", ""),
                        RawUser(3, "", "", "cat")>>],
     b |-> [resolve |-> "ok", honors |-> FALSE, failAt |-> 0, failKind |-> "none",
            users |-> <<RawUser(2, "Robert", "", "bob"), RawOther(9),
                        RawUser(3, "", "", "cat"), RawUser(4, "", "", "")>>],
     private |-> [resolve |-> "ChannelPrivateError", honors |-> TRUE, failAt |-> 0,
                  failKind |-> "none", users |-> <<>>],
     flood |-> [resolve |-> "ok", honors |-> TRUE, failAt |-> 2, failKind |-> "FloodWaitError",
                users |-> <<RawUser(5, "Eve", "", ""), RawUser(6, "", "Fox", ""),
                            RawUser(7, "", "", "gus")>>],
     flaky |-> [resolve |-> "ok", honors |-> TRUE, failAt |-> 2, failKind |-> "TransientError",
                users |-> <<RawUser(5, "Eve", "", ""), RawUser(8, "Hal", "", "")>>],
     dead |-> [resolve |-> "ok", honors |-> TRUE, failAt |-> 1,
               failKind |-> "AuthKeyUnregisteredError",
               users |-> <<RawUser(6, "", "Fox", "")>>]]

\* The lines a caller may put in request.group_links.
Lines ==
    {<<"a">>, <<"@", "b">>, <<"https://t.me/", "private">>, <<"missing">>,
     <<" ", "flood", " ">>, <<"flaky">>, <<"dead">>, <<" ">>}

LinkLists == UNION {[1..n -> Lines] : n \in 0..MaxSources}

ClientOutcomes == {"ok", "start_raises", "not_authorized"}

\* request.member_limit: Optional[int].  0 stands for None and for 0 (both
\* falsy); a negative limit is accepted by the request model.  Two limits
\* lie just above the page caps.
MemberLimits == (-1..MaxLimit) \cup {StreamPageCap + 1, BatchPageCap + 1}

\* ------------------------------------------------------- pure functions
\* str.strip(): leading and trailing whitespace removed.
RECURSIVE LStrip(_)
LStrip(s) == IF s # <<>> /\ Head(s) = " " THEN LStrip(Tail(s)) ELSE s

RECURSIVE RStrip(_)
RStrip(s) ==
    IF s # <<>> /\ s[Len(s)] = " " THEN RStrip(SubSeq(s, 1, Len(s) - 1)) ELSE s

Strip(s) == LStrip(RStrip(s))

\* Variant: the filter `if link.strip()` is missing.
ParseGroupLinks_KeepsBlank(lines) == [j \in 1..Len(lines) |-> Strip(lines[j])]

\* [link.strip() for link in request.group_links.split('\n') if link.strip()]
ParseGroupLinks(lines) ==
    LET stripped == [j \in 1..Len(lines) |-> Strip(lines[j])]
    IN  SelectSeq(stripped, LAMBDA l : l # <<>>)

\* The clean-up of get_group_entity: the URL prefix is replaced away when the
\* identifier starts with it, then one leading "@" is dropped.
CleanIdentifier(ident) ==
    LET noUrl == IF ident # <<>> /\ Head(ident) = "https://t.me/"
                 THEN SelectSeq(ident, LAMBDA t : t # "https://t.me/")
                 ELSE ident
    IN  IF noUrl # <<>> /\ Head(noUrl) = "@" THEN Tail(noUrl) ELSE noUrl

\* client.get_entity(name): "ok", or the exception it raises.
ResolveOutcome(ident) ==
    LET name == CleanIdentifier(ident)
    IN  IF Len(name) = 1 /\ name[1] \in DOMAIN Remote
        THEN Remote[name[1]].resolve
        ELSE "ValueError"

\* The entity get_group_entity returns (its title), when ResolveOutcome is "ok".
EntityOf(ident) == CleanIdentifier(ident)[1]

\* get_group_entity's result: "ok", or the status code of the HTTPException
\* it raises (403 for ChannelPrivateError, 404 for anything else).
GetGroupEntityStatus(ident) ==
    LET r == ResolveOutcome(ident)
    IN  IF r = "ok" THEN 200 ELSE IF r = "ChannelPrivateError" THEN 403 ELSE 404

\* f"{first_name or ''} {last_name or ''}".strip() or username or f"User {id}"
DisplayName(user) ==
    LET full == IF user.first_name # "" /\ user.last_name # ""
                THEN user.first_name \o " " \o user.last_name
                ELSE user.first_name \o user.last_name
    IN  IF full # "" THEN full
        ELSE IF user.username # "" THEN user.username
        ELSE "User " \o ToString(user.id)

\* extract_user_info (the fields the harvest logic reads or reports).
extract_user_info(user) ==
    [id |-> ToString(user.id), username |-> user.username, name |-> DisplayName(user)]

\* Variant: every returned record is normalised, whatever its type.
RECURSIVE ProcessUsers_NoTypeTest(_, _, _)
ProcessUsers_NoTypeTest(users, f, limit) ==
    IF users = <<>> THEN f
    ELSE LET contact == extract_user_info(Head(users))
             g == [members |-> Append(f.members, contact),
                   batch_members |-> Append(f.batch_members, contact),
                   total_scraped |-> f.total_scraped + 1]
         IN  IF limit # 0 /\ g.total_scraped >= limit
             THEN g
             ELSE ProcessUsers_NoTypeTest(Tail(users), g, limit)

\* Variant: the loop over a page does not stop at the limit.
RECURSIVE ProcessUsers_NoBreak(_, _, _)
ProcessUsers_NoBreak(users, f, limit) ==
    IF users = <<>> THEN f
    ELSE LET user == Head(users)
         IN  IF user.is_user
             THEN LET contact == extract_user_info(user)
                  IN  ProcessUsers_NoBreak(Tail(users),
                          [members |-> Append(f.members, contact),
                           batch_members |-> Append(f.batch_members, contact),
                           total_scraped |-> f.total_scraped + 1], limit)
             ELSE ProcessUsers_NoBreak(Tail(users), f, limit)

\* The body of `for user in participants.users`: User records are
\* normalised and appended; the loop breaks once the limit is reached.
\* f: [members, batch_members, total_scraped].
RECURSIVE ProcessUsers(_, _, _)
ProcessUsers(users, f, limit) ==
    IF users = <<>> THEN f
    ELSE LET user == Head(users)
         IN  IF user.is_user
             THEN LET contact == extract_user_info(user)
                      g == [members |-> Append(f.members, contact),
                            batch_members |-> Append(f.batch_members, contact),
                            total_scraped |-> f.total_scraped + 1]
                  IN  IF limit # 0 /\ g.total_scraped >= limit
                      THEN g
                      ELSE ProcessUsers(Tail(users), g, limit)
             ELSE ProcessUsers(Tail(users), f, limit)

\* `if limit and total_scraped >= limit: break` at the top of the loop.
LimitReached(limit, total_scraped) == limit # 0 /\ total_scraped >= limit

\* Variant: the running total is not subtracted from the limit.
BatchSize_IgnoresTotal(cap, limit, total_scraped) ==
    Min(cap, IF limit # 0 THEN limit ELSE cap)

\* batch_size = min(cap, limit - total_scraped if limit else cap)
BatchSize(cap, limit, total_scraped) ==
    Min(cap, IF limit # 0 THEN limit - total_scraped ELSE cap)

\* Variant: the subtraction is made outside `if request.member_limit`.
RemainingLimit_Unguarded(member_limit, collected) == member_limit - collected

\* Variant: the offset advances by the size asked for.
NextOffset_ByBatchSize(offset, users, batch_size) == offset + batch_size

\* offset += len(participants.users)
NextOffset(offset, users, batch_size) == offset + Len(users)

\* Variant: the loop goes on to the next request with no delay.
AfterPage_NoDelay == "page"

\* Where the pagination loop goes after a non-empty page: the rate-limiting
\* `await asyncio.sleep(...)`.
AfterPage == "sleep"

\* remaining_limit of the orchestrating loops (0: None).
RemainingLimit(member_limit, collected) ==
    IF member_limit # 0 THEN member_limit - collected ELSE 0

\* Variant: the test written `remaining_limit < 0`.
BudgetUsedUp_StrictTest(member_limit, collected) ==
    member_limit # 0 /\ member_limit - collected < 0

\* `if request.member_limit: ... if remaining_limit <= 0: break`
BudgetUsedUp(member_limit, collected) ==
    member_limit # 0 /\ member_limit - collected <= 0

\* Variant: the test `contact.id not in unique_contacts` is missing, so a
\* later contact of an id overwrites the one kept (at its place in the dict).
RECURSIVE UniqueContacts_LastWins(_, _)
UniqueContacts_LastWins(contacts, acc) ==
    IF contacts = <<>> THEN acc
    ELSE LET contact == Head(contacts)
         IN  UniqueContacts_LastWins(Tail(contacts),
                 IF \E j \in 1..Len(acc) : acc[j].id = contact.id
                 THEN [j \in 1..Len(acc) |->
                          IF acc[j].id = contact.id THEN contact ELSE acc[j]]
                 ELSE Append(acc, contact))

\* The final de-duplication: the first contact of each id is kept, in order.
RECURSIVE UniqueContacts(_, _)
UniqueContacts(contacts, acc) ==
    IF contacts = <<>> THEN acc
    ELSE LET contact == Head(contacts)
         IN  UniqueContacts(Tail(contacts),
                 IF \E j \in 1..Len(acc) : acc[j].id = contact.id
                 THEN acc ELSE Append(acc, contact))

\* participants.users of client(GetParticipantsRequest(offset, limit)) on an
\* entity, when the request does not raise.
GetParticipants(entity, offset, limit) ==
    LET g == Remote[entity]
        rest == Len(g.users) - offset
        n == IF g.honors THEN Min(Min(pageSize, limit), rest) ELSE Min(pageSize, rest)
    IN  IF rest <= 0 THEN <<>> ELSE SubSeq(g.users, offset + 1, offset + n)

\* The exception the ordinal-th request of one pagination raises ("none": none).
FetchFailure(entity, ordinal) ==
    IF Remote[entity].failAt = ordinal THEN Remote[entity].failKind ELSE "none"

\* get_telegram_client on the process's global client: the client left in
\* the global, and whether the call returns it (ok) or raises HTTPException(500).
GetTelegramClient(client) ==
    IF client \in {"None", "disconnected"}
    THEN IF clientOutcome = "start_raises"
         THEN [client |-> "disconnected", ok |-> FALSE]
         ELSE IF clientOutcome = "not_authorized"
         THEN [client |-> "connected_unauthorized", ok |-> FALSE]
         ELSE [client |-> "connected_authorized", ok |-> TRUE]
    ELSE [client |-> client, ok |-> TRUE]

\* ---------------------------------------------------------------- state
NoFrame ==
    [entity |-> "", limit |-> 0, members |-> <<>>, offset |-> 0,
     total_scraped |-> 0, batch_count |-> 0, fetches |-> 0]

\* members = [], offset = 0, total_scraped = 0, batch_count = 0
NewFrame(entity, limit) == [NoFrame EXCEPT !.entity = entity, !.limit = limit]

NoResponse == [status |-> "pending", code |-> 0, contacts |-> <<>>, total_contacts |-> 0]

ErrorResponse(code) ==
    [status |-> "error", code |-> code, contacts |-> <<>>, total_contacts |-> 0]

\* ScrapeResponse(status="success", contacts=final_contacts, ...)
SuccessResponse(final_contacts) ==
    [status |-> "success", code |-> 200, contacts |-> final_contacts,
     total_contacts |-> Len(final_contacts)]

\* History records.
CallEntity(h) ==
    [op |-> "get_entity", src |-> gi[h], offset |-> 0, limit |-> 0, returned |-> 0,
     users |-> 0, raised |-> ResolveOutcome(group_links[h][gi[h]]) # "ok",
     collected |-> Len(all_contacts[h])]

CallParticipants(h, batch_size, page, failure) ==
    [op |-> "get_participants", src |-> gi[h], offset |-> pg[h].offset,
     limit |-> batch_size, returned |-> Len(page),
     users |-> Len(SelectSeq(page, LAMBDA u : u.is_user)),
     raised |-> failure # "none", collected |-> Len(all_contacts[h])]

CallSleep(h) ==
    [op |-> "sleep", src |-> gi[h], offset |-> 0, limit |-> 0, returned |-> 0,
     users |-> 0, raised |-> FALSE, collected |-> Len(all_contacts[h])]

Outcome(h, state, cause, members) ==
    [src |-> gi[h], state |-> state, cause |-> cause, limit |-> pg[h].limit,
     members |-> members]

Init ==
    \E links \in LinkLists, ml \in MemberLimits, ps \in 1..MaxPage, co \in ClientOutcomes :
        /\ request = [h \in Harvests |-> [group_links |-> links, member_limit |-> ml]]
        /\ pageSize = ps
        /\ clientOutcome = co
        /\ telegram_client = [h \in Harvests |-> "None"]
        /\ pc = [h \in Harvests |-> IF h = "batch" THEN "get_client" ELSE "start"]
        /\ group_links = [h \in Harvests |-> <<>>]
        /\ gi = [h \in Harvests |-> 0]
        /\ all_contacts = [h \in Harvests |-> <<>>]
        /\ processed_groups = [h \in Harvests |-> 0]
        /\ pg = [h \in Harvests |-> NoFrame]
        /\ events = [h \in Harvests |-> <<>>]
        /\ response = [h \in Harvests |-> NoResponse]
        /\ calls = [h \in Harvests |-> <<>>]
        /\ outcomes = [h \in Harvests |-> <<>>]
        /\ previous = [h \in Harvests |-> <<>>]
        /\ concurrent = FALSE
        /\ instances = <<>> /\ current = 0
        /\ gtc = [c \in Callers |-> NotCalled]

world == <<request, pageSize, clientOutcome>>

\* The two harvests share no variable.  Unless the two requests are served
\* at the same time, the streaming one is scheduled after the batch one has
\* ended.
Turn(h) == concurrent \/ h = "batch" \/ pc["batch"] = "done"

\* ------------------------------------------- batch: scrape_telegram_members
\* client = await get_telegram_client(); a failure leaves through
\* `except HTTPException: raise`.
BatchGetClient(h) ==
    /\ h = "batch" /\ pc[h] = "get_client"
    /\ LET r == GetTelegramClient(telegram_client[h])
       IN  /\ telegram_client' = [telegram_client EXCEPT ![h] = r.client]
           /\ IF r.ok
              THEN /\ pc' = [pc EXCEPT ![h] = "parse"]
                   /\ UNCHANGED response
              ELSE /\ pc' = [pc EXCEPT ![h] = "done"]
                   /\ response' = [response EXCEPT ![h] = ErrorResponse(500)]
    /\ UNCHANGED <<world, process, group_links, gi, all_contacts, processed_groups, pg, events,
                   calls, outcomes>>

\* The links are parsed; no link at all is HTTPException(400).
BatchParse(h) ==
    /\ h = "batch" /\ pc[h] = "parse"
    /\ LET links == ParseGroupLinks(request[h].group_links)
       IN  IF links = <<>>
           THEN /\ pc' = [pc EXCEPT ![h] = "done"]
                /\ response' = [response EXCEPT ![h] = ErrorResponse(400)]
                /\ UNCHANGED <<group_links, gi, all_contacts>>
           ELSE /\ group_links' = [group_links EXCEPT ![h] = links]
                /\ all_contacts' = [all_contacts EXCEPT ![h] = <<>>]
                /\ gi' = [gi EXCEPT ![h] = 1]
                /\ pc' = [pc EXCEPT ![h] = "for"]
                /\ UNCHANGED response
    /\ UNCHANGED <<world, process, telegram_client, processed_groups, pg, events, calls, outcomes>>

\* One iteration of `for group_link in group_links` up to the call of
\* scrape_group_members: get_group_entity, then the remaining limit.
BatchResolve(h) ==
    /\ h = "batch" /\ pc[h] = "for" /\ gi[h] <= Len(group_links[h])
    /\ calls' = [calls EXCEPT ![h] = Append(@, CallEntity(h))]
    /\ LET status == GetGroupEntityStatus(group_links[h][gi[h]])
           ml == request[h].member_limit
           collected == Len(all_contacts[h])
       IN  IF status # 200
           THEN \* HTTPException: `except HTTPException: raise`, twice
                /\ pc' = [pc EXCEPT ![h] = "done"]
                /\ response' = [response EXCEPT ![h] = ErrorResponse(status)]
                /\ outcomes' = [outcomes EXCEPT ![h] =
                       Append(@, Outcome(h, "ResolveFailed", ResolveOutcome(group_links[h][gi[h]]), <<>>))]
                /\ UNCHANGED pg
           ELSE IF BudgetUsedUp(ml, collected)
           THEN \* break
                /\ pc' = [pc EXCEPT ![h] = "finish"]
                /\ outcomes' = [outcomes EXCEPT ![h] =
                       Append(@, Outcome(h, "BudgetUsedUp", "none", <<>>))]
                /\ UNCHANGED <<response, pg>>
           ELSE /\ pg' = [pg EXCEPT ![h] =
                       NewFrame(EntityOf(group_links[h][gi[h]]), RemainingLimit(ml, collected))]
                /\ pc' = [pc EXCEPT ![h] = "page"]
                /\ UNCHANGED <<response, outcomes>>
    /\ UNCHANGED <<world, process, telegram_client, group_links, gi, all_contacts, processed_groups,
                   events>>

\* Variant: all_contacts is one list of the module, which every running
\* handler sees extended.
BatchReturn_SharedList(h, state) ==
    /\ all_contacts' = [k \in Harvests |-> all_contacts[k] \o pg[h].members]
    /\ outcomes' = [outcomes EXCEPT ![h] = Append(@, Outcome(h, state, "none", pg[h].members))]
    /\ gi' = [gi EXCEPT ![h] = @ + 1]
    /\ pg' = [pg EXCEPT ![h] = NoFrame]
    /\ pc' = [pc EXCEPT ![h] = "for"]
    /\ UNCHANGED response

\* scrape_group_members returns members: all_contacts.extend(group_contacts),
\* and the for loop moves on.
BatchReturn(h, state) ==
    /\ all_contacts' = [all_contacts EXCEPT ![h] = @ \o pg[h].members]
    /\ outcomes' = [outcomes EXCEPT ![h] = Append(@, Outcome(h, state, "none", pg[h].members))]
    /\ gi' = [gi EXCEPT ![h] = @ + 1]
    /\ pg' = [pg EXCEPT ![h] = NoFrame]
    /\ pc' = [pc EXCEPT ![h] = "for"]
    /\ UNCHANGED response

\* One pass of `while True` of scrape_group_members, up to asyncio.sleep.
SGM_Fetch(h) ==
    /\ h = "batch" /\ pc[h] = "page"
    /\ LET f == pg[h]
           batch_size == BatchSize(BatchPageCap, f.limit, f.total_scraped)
           failure == FetchFailure(f.entity, f.fetches + 1)
           page == GetParticipants(f.entity, f.offset, batch_size)
       IN  IF LimitReached(f.limit, f.total_scraped)
           THEN BatchReturn(h, "LimitReached") /\ UNCHANGED calls
           ELSE IF failure # "none"
           THEN \* FloodWaitError: 429; any other exception: 500; re-raised upward
                /\ calls' = [calls EXCEPT ![h] =
                       Append(@, CallParticipants(h, batch_size, <<>>, failure))]
                /\ outcomes' = [outcomes EXCEPT ![h] = Append(@, Outcome(h, "Failed", failure, <<>>))]
                /\ response' = [response EXCEPT ![h] =
                       ErrorResponse(IF failure = "FloodWaitError" THEN 429 ELSE 500)]
                /\ pc' = [pc EXCEPT ![h] = "done"]
                /\ UNCHANGED <<all_contacts, gi, pg>>
           ELSE /\ calls' = [calls EXCEPT ![h] =
                       Append(@, CallParticipants(h, batch_size, page, "none"))]
                /\ IF page = <<>>
                   THEN BatchReturn(h, "Exhausted")
                   ELSE LET g == ProcessUsers(page,
                                     [members |-> f.members, batch_members |-> <<>>,
                                      total_scraped |-> f.total_scraped], f.limit)
                        IN  /\ pg' = [pg EXCEPT ![h] =
                                   [f EXCEPT !.members = g.members,
                                             !.total_scraped = g.total_scraped,
                                             !.offset = NextOffset(f.offset, page, batch_size),
                                             !.fetches = f.fetches + 1]]
                            /\ pc' = [pc EXCEPT ![h] = AfterPage]
                            /\ UNCHANGED <<all_contacts, gi, outcomes, response>>
    /\ UNCHANGED <<world, process, telegram_client, group_links, processed_groups, events>>

\* await asyncio.sleep(1)
SGM_Sleep(h) ==
    /\ h = "batch" /\ pc[h] = "sleep"
    /\ calls' = [calls EXCEPT ![h] = Append(@, CallSleep(h))]
    /\ pc' = [pc EXCEPT ![h] = "page"]
    /\ UNCHANGED <<world, process, telegram_client, group_links, gi, all_contacts, processed_groups,
                   pg, events, response, outcomes>>

\* After the loop (or its break): de-duplicate and return the ScrapeResponse.
BatchRespond(h) ==
    /\ h = "batch"
    /\ pc[h] = "finish" \/ (pc[h] = "for" /\ gi[h] > Len(group_links[h]))
    /\ response' = [response EXCEPT ![h] =
           SuccessResponse(UniqueContacts(all_contacts[h], <<>>))]
    /\ pc' = [pc EXCEPT ![h] = "done"]
    /\ UNCHANGED <<world, process, telegram_client, group_links, gi, all_contacts, processed_groups,
                   pg, events, calls, outcomes>>

\* ----------------------------- streaming: event_stream and its generator
Emit(h, event) == events' = [events EXCEPT ![h] = Append(@, event)]

\* yield {'type': 'connected', ...}
StreamConnected(h) ==
    /\ h = "stream" /\ Turn(h) /\ pc[h] = "start"
    /\ Emit(h, [type |-> "connected"])
    /\ pc' = [pc EXCEPT ![h] = "get_client"]
    /\ UNCHANGED <<world, process, telegram_client, group_links, gi, all_contacts, processed_groups,
                   pg, response, calls, outcomes>>

\* client = await get_telegram_client(); a failure reaches the outer
\* `except Exception`, which yields the 'error' event and ends the stream.
StreamGetClient(h) ==
    /\ h = "stream" /\ Turn(h) /\ pc[h] = "get_client"
    /\ LET r == GetTelegramClient(telegram_client[h])
       IN  /\ telegram_client' = [telegram_client EXCEPT ![h] = r.client]
           /\ IF r.ok
              THEN /\ pc' = [pc EXCEPT ![h] = "parse"]
                   /\ UNCHANGED events
              ELSE /\ pc' = [pc EXCEPT ![h] = "done"]
                   /\ Emit(h, [type |-> "error", message |-> "Internal server error"])
    /\ UNCHANGED <<world, process, group_links, gi, all_contacts, processed_groups, pg, response,
                   calls, outcomes>>

\* Variant: the `return` after the no-links 'error' event is missing, and
\* the handler runs on to the code after its (empty) loop.
NoLinksFallsThrough == "finish"

\* `return` after the no-links 'error' event: the generator ends.
NoLinksReturn == "done"

\* The links are parsed; no link at all yields the 'error' event and returns.
StreamParse(h) ==
    /\ h = "stream" /\ Turn(h) /\ pc[h] = "parse"
    /\ LET links == ParseGroupLinks(request[h].group_links)
       IN  IF links = <<>>
           THEN /\ pc' = [pc EXCEPT ![h] = NoLinksReturn]
                /\ Emit(h, [type |-> "error", message |-> "No valid group links provided"])
                /\ UNCHANGED <<group_links, gi, all_contacts, processed_groups>>
           ELSE /\ group_links' = [group_links EXCEPT ![h] = links]
                /\ all_contacts' = [all_contacts EXCEPT ![h] = <<>>]
                /\ processed_groups' = [processed_groups EXCEPT ![h] = 0]
                /\ gi' = [gi EXCEPT ![h] = 1]
                /\ pc' = [pc EXCEPT ![h] = "for"]
                /\ UNCHANGED events
    /\ UNCHANGED <<world, process, telegram_client, pg, response, calls, outcomes>>

\* The first statement of an iteration: yield the 'group_start' event.
StreamGroupStart(h) ==
    /\ h = "stream" /\ Turn(h) /\ pc[h] = "for" /\ gi[h] <= Len(group_links[h])
    /\ Emit(h, [type |-> "group_start", group_url |-> group_links[h][gi[h]],
                progress |-> processed_groups[h] + 1,
                total_groups |-> Len(group_links[h])])
    /\ pc' = [pc EXCEPT ![h] = "resolve"]
    /\ UNCHANGED <<world, process, telegram_client, group_links, gi, all_contacts, processed_groups,
                   pg, response, calls, outcomes>>

\* get_group_entity, then the remaining limit.  An HTTPException is caught
\* by the iteration's `except Exception`: 'group_error', continue.
StreamResolve(h) ==
    /\ h = "stream" /\ Turn(h) /\ pc[h] = "resolve"
    /\ calls' = [calls EXCEPT ![h] = Append(@, CallEntity(h))]
    /\ LET status == GetGroupEntityStatus(group_links[h][gi[h]])
           ml == request[h].member_limit
           collected == Len(all_contacts[h])
       IN  IF status # 200
           THEN /\ Emit(h, [type |-> "group_error", group_url |-> group_links[h][gi[h]],
                            error |-> ResolveOutcome(group_links[h][gi[h]])])
                /\ outcomes' = [outcomes EXCEPT ![h] =
                       Append(@, Outcome(h, "ResolveFailed", ResolveOutcome(group_links[h][gi[h]]), <<>>))]
                /\ gi' = [gi EXCEPT ![h] = @ + 1]
                /\ pc' = [pc EXCEPT ![h] = "for"]
                /\ UNCHANGED pg
           ELSE IF BudgetUsedUp(ml, collected)
           THEN \* break
                /\ pc' = [pc EXCEPT ![h] = "finish"]
                /\ outcomes' = [outcomes EXCEPT ![h] =
                       Append(@, Outcome(h, "BudgetUsedUp", "none", <<>>))]
                /\ UNCHANGED <<events, gi, pg>>
           ELSE /\ pg' = [pg EXCEPT ![h] =
                       NewFrame(EntityOf(group_links[h][gi[h]]), RemainingLimit(ml, collected))]
                /\ pc' = [pc EXCEPT ![h] = "page"]
                /\ UNCHANGED <<events, gi, outcomes>>
    /\ UNCHANGED <<world, process, telegram_client, group_links, all_contacts, processed_groups,
                   response>>

\* Variant: the members of 'progress' updates are added as well.
AddedByUpdate_ProgressToo(update) ==
    IF update.type = "group_complete" THEN update.all_members
    ELSE IF update.type = "progress" THEN update.members
    ELSE <<>>

\* What event_stream adds to all_contacts for an update of the generator:
\* `if update.get('type') == 'group_complete': all_contacts.extend(...)`.
AddedByUpdate(update) ==
    IF update.type = "group_complete" THEN update.all_members ELSE <<>>

\* event_stream forwards an update of the generator and adds its members.
Forward(h, update) ==
    /\ Emit(h, update)
    /\ all_contacts' = [all_contacts EXCEPT ![h] = @ \o AddedByUpdate(update)]

\* The generator leaves its loop and yields 'group_complete'; event_stream
\* forwards it, extends all_contacts and counts the group.
StreamReturn(h, state) ==
    /\ Forward(h, [type |-> "group_complete", group_name |-> pg[h].entity,
                   total_members |-> Len(pg[h].members), all_members |-> pg[h].members])
    /\ outcomes' = [outcomes EXCEPT ![h] = Append(@, Outcome(h, state, "none", pg[h].members))]
    /\ processed_groups' = [processed_groups EXCEPT ![h] = @ + 1]
    /\ gi' = [gi EXCEPT ![h] = @ + 1]
    /\ pg' = [pg EXCEPT ![h] = NoFrame]
    /\ pc' = [pc EXCEPT ![h] = "for"]

\* One pass of `while True` of scrape_group_members_progressive, up to
\* asyncio.sleep, with event_stream forwarding what the generator yields.
SGMP_Fetch(h) ==
    /\ h = "stream" /\ Turn(h) /\ pc[h] = "page"
    /\ LET f == pg[h]
           batch_size == BatchSize(StreamPageCap, f.limit, f.total_scraped)
           failure == FetchFailure(f.entity, f.fetches + 1)
           page == GetParticipants(f.entity, f.offset, batch_size)
       IN  IF LimitReached(f.limit, f.total_scraped)
           THEN StreamReturn(h, "LimitReached") /\ UNCHANGED calls
           ELSE IF failure # "none"
           THEN \* `except Exception`: the generator yields an 'error' update and
                \* returns; event_stream forwards it and goes on after the loop
                /\ calls' = [calls EXCEPT ![h] =
                       Append(@, CallParticipants(h, batch_size, <<>>, failure))]
                /\ Forward(h, [type |-> "error", group_name |-> f.entity, error |-> failure])
                /\ outcomes' = [outcomes EXCEPT ![h] = Append(@, Outcome(h, "Failed", failure, <<>>))]
                /\ processed_groups' = [processed_groups EXCEPT ![h] = @ + 1]
                /\ gi' = [gi EXCEPT ![h] = @ + 1]
                /\ pg' = [pg EXCEPT ![h] = NoFrame]
                /\ pc' = [pc EXCEPT ![h] = "for"]
           ELSE /\ calls' = [calls EXCEPT ![h] =
                       Append(@, CallParticipants(h, batch_size, page, "none"))]
                /\ IF page = <<>>
                   THEN StreamReturn(h, "Exhausted")
                   ELSE LET g == ProcessUsers(page,
                                     [members |-> f.members, batch_members |-> <<>>,
                                      total_scraped |-> f.total_scraped], f.limit)
                            yields == g.batch_members # <<>>
                            batch_count == IF yields THEN f.batch_count + 1 ELSE f.batch_count
                        IN  /\ pg' = [pg EXCEPT ![h] =
                                   [f EXCEPT !.members = g.members,
                                             !.total_scraped = g.total_scraped,
                                             !.batch_count = batch_count,
                                             !.offset = NextOffset(f.offset, page, batch_size),
                                             !.fetches = f.fetches + 1]]
                            /\ IF yields
                               THEN Forward(h, [type |-> "progress", group_name |-> f.entity,
                                                batch |-> batch_count,
                                                processed |-> g.total_scraped,
                                                new_members |-> Len(g.batch_members),
                                                members |-> g.batch_members])
                               ELSE UNCHANGED <<events, all_contacts>>
                            /\ pc' = [pc EXCEPT ![h] = AfterPage]
                            /\ UNCHANGED <<gi, outcomes, processed_groups>>
    /\ UNCHANGED <<world, process, telegram_client, group_links, response>>

\* await asyncio.sleep(0.5)
SGMP_Sleep(h) ==
    /\ h = "stream" /\ Turn(h) /\ pc[h] = "sleep"
    /\ calls' = [calls EXCEPT ![h] = Append(@, CallSleep(h))]
    /\ pc' = [pc EXCEPT ![h] = "page"]
    /\ UNCHANGED <<world, process, telegram_client, group_links, gi, all_contacts, processed_groups,
                   pg, events, response, outcomes>>

\* After the loop (or its break): de-duplicate and yield 'complete'.
StreamComplete(h) ==
    /\ h = "stream" /\ Turn(h)
    /\ pc[h] = "finish" \/ (pc[h] = "for" /\ gi[h] > Len(group_links[h]))
    /\ LET final_contacts == UniqueContacts(all_contacts[h], <<>>)
       IN  Emit(h, [type |-> "complete", total_contacts |-> Len(final_contacts),
                    contacts |-> final_contacts])
    /\ pc' = [pc EXCEPT ![h] = "done"]
    /\ UNCHANGED <<world, process, telegram_client, group_links, gi, all_contacts, processed_groups,
                   pg, response, calls, outcomes>>

\* ------------------------------------------------------- specification
Next ==
    \/ \E h \in Harvests : BatchGetClient(h)
    \/ \E h \in Harvests : BatchParse(h)
    \/ \E h \in Harvests : BatchResolve(h)
    \/ \E h \in Harvests : SGM_Fetch(h)
    \/ \E h \in Harvests : SGM_Sleep(h)
    \/ \E h \in Harvests : BatchRespond(h)
    \/ \E h \in Harvests : StreamConnected(h)
    \/ \E h \in Harvests : StreamGetClient(h)
    \/ \E h \in Harvests : StreamParse(h)
    \/ \E h \in Harvests : StreamGroupStart(h)
    \/ \E h \in Harvests : StreamResolve(h)
    \/ \E h \in Harvests : SGMP_Fetch(h)
    \/ \E h \in Harvests : SGMP_Sleep(h)
    \/ \E h \in Harvests : StreamComplete(h)

Spec == Init /\ [][Next]_vars

\* ------------------------------------- the endpoint is called a second time
Reverse(s) == [j \in 1..Len(s) |-> s[Len(s) + 1 - j]]

\* The harvest has ended and its endpoint is called again in the same process
\* (the global client stays), with the lines of group_links in reverse order
\* and the same member_limit: the handler starts with fresh locals.  The
\* result of the first call is kept in `previous`.
NextRequest(h) ==
    /\ pc[h] = "done" /\ previous[h] = <<>>
    /\ h = "batch" => pc["stream"] = "start"
    /\ previous' = [previous EXCEPT ![h] =
           <<[has |-> (IF h = "batch" THEN response[h].status = "success"
                       ELSE events[h][Len(events[h])].type = "complete"),
              contacts |-> (IF h = "batch" THEN response[h].contacts
                            ELSE IF events[h][Len(events[h])].type = "complete"
                                 THEN events[h][Len(events[h])].contacts ELSE <<>>),
              group_links |-> group_links[h]]>>]
    /\ request' = [request EXCEPT ![h].group_links = Reverse(@)]
    /\ pc' = [pc EXCEPT ![h] = IF h = "batch" THEN "get_client" ELSE "start"]
    /\ group_links' = [group_links EXCEPT ![h] = <<>>]
    /\ gi' = [gi EXCEPT ![h] = 0]
    /\ all_contacts' = [all_contacts EXCEPT ![h] = <<>>]
    /\ processed_groups' = [processed_groups EXCEPT ![h] = 0]
    /\ pg' = [pg EXCEPT ![h] = NoFrame]
    /\ events' = [events EXCEPT ![h] = <<>>]
    /\ response' = [response EXCEPT ![h] = NoResponse]
    /\ calls' = [calls EXCEPT ![h] = <<>>]
    /\ outcomes' = [outcomes EXCEPT ![h] = <<>>]
    /\ UNCHANGED <<pageSize, clientOutcome, telegram_client, concurrent, instances,
                   current, gtc>>

NextReorder ==
    \/ Next
    \/ \E h \in Harvests : NextRequest(h)

SpecReorder == Init /\ [][NextReorder]_vars

\* ------------------------------------ two requests served at the same time
\* The requests the two concurrent callers send.
ConcurrentLines == {<<"a">>, <<"flaky">>}

ConcurrentRequests ==
    [group_links : UNION {[1..n -> ConcurrentLines] : n \in 1..MaxSources},
     member_limit : {0, MaxLimit}]

\* One process whose global client is connected (get_telegram_client returns
\* it as it is) receives a request on each endpoint; the event loop runs the
\* two handlers interleaved at their awaits.
InitConcurrent ==
    \E rb \in ConcurrentRequests, rs \in ConcurrentRequests, ps \in 1..MaxPage :
        /\ request = [h \in Harvests |-> IF h = "batch" THEN rb ELSE rs]
        /\ pageSize = ps
        /\ clientOutcome = "ok"
        /\ telegram_client = [h \in Harvests |-> "connected_authorized"]
        /\ pc = [h \in Harvests |-> IF h = "batch" THEN "get_client" ELSE "start"]
        /\ group_links = [h \in Harvests |-> <<>>]
        /\ gi = [h \in Harvests |-> 0]
        /\ all_contacts = [h \in Harvests |-> <<>>]
        /\ processed_groups = [h \in Harvests |-> 0]
        /\ pg = [h \in Harvests |-> NoFrame]
        /\ events = [h \in Harvests |-> <<>>]
        /\ response = [h \in Harvests |-> NoResponse]
        /\ calls = [h \in Harvests |-> <<>>]
        /\ outcomes = [h \in Harvests |-> <<>>]
        /\ previous = [h \in Harvests |-> <<>>]
        /\ concurrent = TRUE
        /\ instances = <<>> /\ current = 0
        /\ gtc = [c \in Callers |-> NotCalled]

SpecConcurrent == InitConcurrent /\ [][Next]_vars

\* --------------------- get_telegram_client called by concurrent requests
\* The harvest steps above take get_telegram_client as one step on the state
\* of the global client.  Here the function is followed await by await, with
\* the TelegramClient objects it constructs, for requests that arrive while
\* others are suspended in it.
Harvest0 == [h \in Harvests |-> [group_links |-> <<>>, member_limit |-> 0]]

InitClient ==
    \E co \in ClientOutcomes :
        /\ request = Harvest0
        /\ pageSize = 1
        /\ clientOutcome = co
        /\ telegram_client = [h \in Harvests |-> "None"]
        /\ pc = [h \in Harvests |-> IF h = "batch" THEN "get_client" ELSE "start"]
        /\ group_links = [h \in Harvests |-> <<>>]
        /\ gi = [h \in Harvests |-> 0]
        /\ all_contacts = [h \in Harvests |-> <<>>]
        /\ processed_groups = [h \in Harvests |-> 0]
        /\ pg = [h \in Harvests |-> NoFrame]
        /\ events = [h \in Harvests |-> <<>>]
        /\ response = [h \in Harvests |-> NoResponse]
        /\ calls = [h \in Harvests |-> <<>>]
        /\ outcomes = [h \in Harvests |-> <<>>]
        /\ previous = [h \in Harvests |-> <<>>]
        /\ concurrent = TRUE
        /\ instances = <<>> /\ current = 0
        /\ gtc = [c \in Callers |-> NotCalled]

harvests == <<request, pageSize, clientOutcome, telegram_client, pc, group_links, gi,
              all_contacts, processed_groups, pg, events, response, calls, outcomes,
              previous, concurrent>>

\* telegram_client.is_connected() of the global (FALSE for None).
GlobalIsConnected == current # 0 /\ instances[current].connected

\* The call up to its first suspension: with a connected global, `return
\* telegram_client`; otherwise a new TelegramClient is constructed and bound
\* to the global, and the caller is suspended in `await telegram_client.start()`.
GTC_Call(c) ==
    /\ gtc[c].at = "idle"
    /\ IF GlobalIsConnected
       THEN /\ gtc' = [gtc EXCEPT ![c] = [at |-> "returned", on |-> 0, result |-> current]]
            /\ UNCHANGED <<instances, current>>
       ELSE /\ instances' = Append(instances, [connected |-> FALSE, by |-> c])
            /\ current' = Len(instances) + 1
            /\ gtc' = [gtc EXCEPT ![c] =
                   [at |-> "start", on |-> Len(instances) + 1, result |-> 0]]
    /\ UNCHANGED harvests

\* start() of the caller's object ends.  When it raises, the `except` turns
\* it into HTTPException(500).  Otherwise that object is connected and the
\* caller goes on to `await telegram_client.is_user_authorized()`, on the
\* object the global names now: a request on an object that is not connected
\* raises at once.
GTC_Started(c) ==
    /\ gtc[c].at = "start"
    /\ IF clientOutcome = "start_raises"
       THEN /\ gtc' = [gtc EXCEPT ![c] = [at |-> "raised", on |-> 0, result |-> 0]]
            /\ UNCHANGED instances
       ELSE /\ instances' = [instances EXCEPT ![gtc[c].on].connected = TRUE]
            /\ gtc' = [gtc EXCEPT ![c] =
                   IF current = gtc[c].on \/ instances[current].connected
                   THEN [at |-> "authorize", on |-> current, result |-> 0]
                   ELSE [at |-> "raised", on |-> 0, result |-> 0]]
    /\ UNCHANGED <<current, harvests>>

\* is_user_authorized() answers: not authorized raises ("Session is not
\* authorized", HTTPException(500)) and leaves the global as it is;
\* authorized goes on to `return telegram_client`, the global as it is now.
GTC_Authorized(c) ==
    /\ gtc[c].at = "authorize"
    /\ gtc' = [gtc EXCEPT ![c] =
           IF clientOutcome = "not_authorized"
           THEN [at |-> "raised", on |-> 0, result |-> 0]
           ELSE [at |-> "returned", on |-> 0, result |-> current]]
    /\ UNCHANGED <<instances, current, harvests>>

NextClient ==
    \/ \E c \in Callers : GTC_Call(c)
    \/ \E c \in Callers : GTC_Started(c)
    \/ \E c \in Callers : GTC_Authorized(c)

SpecClient == InitClient /\ [][NextClient]_vars

\* ============================================================ properties
Done(h) == pc[h] = "done"

\* The final aggregate of a harvest: the batch response's contacts, the
\* 'complete' event's contacts.
HasAggregate(h) ==
    IF h = "batch" THEN response[h].status = "success"
    ELSE events[h] # <<>> /\ events[h][Len(events[h])].type = "complete"

Aggregate(h) ==
    IF h = "batch" THEN response[h].contacts
    ELSE IF HasAggregate(h) THEN events[h][Len(events[h])].contacts ELSE <<>>

Ids(contacts) == {contacts[j].id : j \in 1..Len(contacts)}

\* The requests for pages made for source i of harvest h, in order.
FetchesOf(h, i) ==
    SelectSeq(calls[h], LAMBDA c : c.op = "get_participants" /\ c.src = i)

UsersIn(F, n) == SumSeq([j \in 1..n |-> F[j].users])

ReturnedIn(F, n) == SumSeq([j \in 1..n |-> F[j].returned])

OutcomesIn(h, states) == {j \in 1..Len(outcomes[h]) : outcomes[h][j].state \in states}

HasOutcome(h, i) == \E j \in 1..Len(outcomes[h]) : outcomes[h][j].src = i

\* What a source holds for the harvest: its User records, normalised, in the
\* remote's order.
ContactsOfSource(link) ==
    LET users == SelectSeq(Remote[EntityOf(link)].users, LAMBDA u : u.is_user)
    IN  [j \in 1..Len(users) |-> extract_user_info(users[j])]

\* ---- C1
\* The positions of the list whose resolution fails, and those of the sources
\* that resolve and whose page fetches never fail.
FailingSources(h) ==
    {i \in 1..Len(group_links[h]) : ResolveOutcome(group_links[h][i]) # "ok"}

SoundSources(h) ==
    {i \in 1..Len(group_links[h]) :
        /\ ResolveOutcome(group_links[h][i]) = "ok"
        /\ Remote[EntityOf(group_links[h][i])].failAt = 0}

\* C1 (as claimed): in both modes, a source whose resolution fails does not
\* abort the harvest.  Stated for the lists made of sources whose resolution
\* fails and of at least one sound source: the harvest ends with a final
\* aggregate, every sound source is paginated to its end (unless the budget
\* is used up first), the contacts of every completed source are in the
\* aggregate, and in streaming mode a 'group_error' event names each failing
\* source that was reached.
C1_SourceIsolation ==
    \A h \in Harvests :
        (/\ Done(h)
         /\ FailingSources(h) # {} /\ SoundSources(h) # {}
         /\ FailingSources(h) \cup SoundSources(h) = 1..Len(group_links[h])) =>
            /\ HasAggregate(h)
            /\ \/ OutcomesIn(h, {"BudgetUsedUp"}) # {}
               \/ \A i \in SoundSources(h) :
                      \E k \in OutcomesIn(h, {"Exhausted", "LimitReached"}) :
                          outcomes[h][k].src = i
            /\ \A k \in OutcomesIn(h, {"Exhausted", "LimitReached"}) :
                   Ids(outcomes[h][k].members) \subseteq Ids(Aggregate(h))
            /\ h = "stream" =>
                   \A j \in OutcomesIn(h, {"ResolveFailed"}) :
                       \E e \in Range(events[h]) :
                           /\ e.type = "group_error"
                           /\ e.group_url = group_links[h][outcomes[h][j].src]

\* ---- C2
NoSourceFailure(h) ==
    /\ group_links[h] # <<>>
    /\ \A i \in 1..Len(group_links[h]) :
           /\ ResolveOutcome(group_links[h][i]) = "ok"
           /\ Remote[EntityOf(group_links[h][i])].failAt = 0

\* U: the distinct member ids across all the sources of the request.
DistinctMembers(h) ==
    UNION {Ids(ContactsOfSource(group_links[h][i])) : i \in 1..Len(group_links[h])}

\* C2 (as claimed): with a member limit L >= 1 and no source failure, the
\* final aggregate holds exactly min(L, U) unique contacts: duplicates do
\* not consume budget.
C2_DuplicatesConsumeNoBudget ==
    \A h \in Harvests :
        (Done(h) /\ request[h].member_limit >= 1 /\ NoSourceFailure(h)) =>
            /\ HasAggregate(h)
            /\ Len(Aggregate(h)) = Min(request[h].member_limit, Cardinality(DistinctMembers(h)))

\* ---- C3
BudgetNeverNegative(h) ==
    /\ request[h].member_limit - Len(all_contacts[h]) >= 0
    /\ HasAggregate(h) => Len(Aggregate(h)) <= request[h].member_limit
    /\ h = "stream" =>
           \A e \in Range(events[h]) :
               e.type = "complete" => e.total_contacts <= request[h].member_limit

\* Every call of the kinds `ops` was made with budget left.
MadeWithBudget(h, ops) ==
    \A c \in Range(calls[h]) :
        c.op \in ops => request[h].member_limit - c.collected > 0

\* C3 (amended): with a member limit L >= 1 the remaining budget
\* L - len(all_contacts) is never negative and the final total never exceeds
\* L; once the remaining budget is 0 no page fetch is issued for any later
\* source (the next source is still resolved before the budget is checked).
C3_BudgetInvariant ==
    \A h \in Harvests :
        request[h].member_limit >= 1 =>
            BudgetNeverNegative(h) /\ MadeWithBudget(h, {"get_participants"})

\* C3 (as claimed): moreover no resolve call is issued once the remaining
\* budget is 0.
C3_NoResolveWithoutBudget ==
    \A h \in Harvests :
        request[h].member_limit >= 1 =>
            BudgetNeverNegative(h) /\ MadeWithBudget(h, {"get_participants", "get_entity"})

\* C3 witness: a harvest that used up its budget with a source left, which was resolved
\* and not paginated.
C3_Witness ==
    \E h \in Harvests :
        /\ Done(h) /\ HasAggregate(h)
        /\ request[h].member_limit >= 1
        /\ Len(all_contacts[h]) = request[h].member_limit
        /\ \E j \in OutcomesIn(h, {"BudgetUsedUp"}) :
               FetchesOf(h, outcomes[h][j].src) = <<>>

\* ---- C4
\* The events by what they report.  event_stream's own 'error' events carry
\* a 'message' and end the stream; the 'error' update of the generator
\* scrape_group_members_progressive carries the 'group_name' of the source
\* whose pagination failed, and is counted with 'group_error' as the
\* source-scoped error event.
IsFatalError(e) == e.type = "error" /\ "message" \in DOMAIN e

IsSourceError(e) == e.type = "group_error" \/ (e.type = "error" /\ "group_name" \in DOMAIN e)

IsTerminal(e) == e.type = "complete" \/ IsFatalError(e)

\* The events of the stream between event p (a 'group_start') and the next
\* 'group_start' or terminal event (or the end of the stream).
BracketOf(h, p) ==
    LET E == events[h]
        stops == {q \in (p + 1)..Len(E) : E[q].type = "group_start" \/ IsTerminal(E[q])}
        stop == IF stops = {} THEN Len(E) + 1
                ELSE CHOOSE q \in stops : \A r \in stops : q <= r
    IN  (p + 1)..(stop - 1)

\* Event e is the 'group_complete' or the source-scoped error of `link`.
ClosesSource(e, link) ==
    \/ e.type = "group_complete" /\ e.group_name = EntityOf(link)
    \/ e.type = "group_error" /\ e.group_url = link
    \/ e.type = "error" /\ IsSourceError(e) /\ e.group_name = EntityOf(link)

\* C4 (as claimed): in an ended stream, every 'group_start' is followed,
\* before the next 'group_start' and before the terminal event, by exactly
\* one 'group_complete' or source-scoped error event of that source.
C4_SourceBracket ==
    Done("stream") =>
        \A p \in 1..Len(events["stream"]) :
            events["stream"][p].type = "group_start" =>
                Cardinality({q \in BracketOf("stream", p) :
                    ClosesSource(events["stream"][q], events["stream"][p].group_url)}) = 1

\* ---- C5
\* C5: a stream begins with 'connected'; a terminal event ('complete', or
\* event_stream's 'error') is the last event of an ended stream, so nothing
\* is emitted after it; an ended stream holds exactly one terminal event.
C5_OneTerminalEvent ==
    LET E == events["stream"]
    IN  /\ E # <<>> => E[1].type = "connected"
        /\ \A q \in 1..Len(E) : IsTerminal(E[q]) => (q = Len(E) /\ Done("stream"))
        /\ Done("stream") =>
               /\ E # <<>> /\ IsTerminal(E[Len(E)])
               /\ Cardinality({q \in 1..Len(E) : IsTerminal(E[q])}) = 1

\* C5 witness: an ended stream in which a source's pagination failed, another source
\* completed, and the last event is 'complete'.
C5_Witness ==
    LET E == events["stream"]
    IN  /\ Done("stream") /\ E # <<>> /\ E[Len(E)].type = "complete"
        /\ \E q \in 1..Len(E) : E[q].type = "error" /\ IsSourceError(E[q])
        /\ \E q \in 1..Len(E) : E[q].type = "group_complete"

\* ---- C6
\* The last call of harvest h made for source i is the page fetch that raised.
EndsWithFailedFetch(h, i) ==
    LET C == SelectSeq(calls[h], LAMBDA c : c.src = i)
    IN  C # <<>> /\ C[Len(C)].op = "get_participants" /\ C[Len(C)].raised

\* C6 (as claimed): in both modes, a page fetch failing with a rate limit or
\* a transient error ends that source's pagination at once (no wait, no
\* further fetch), is reported for that source, and the harvest goes on with
\* the next source and ends with a final aggregate.
C6_PaginationFailureIsSourceScoped ==
    \A h \in Harvests :
        Done(h) =>
            \A j \in OutcomesIn(h, {"Failed"}) :
                outcomes[h][j].cause \in {"FloodWaitError", "TransientError"} =>
                    LET i == outcomes[h][j].src
                    IN  /\ EndsWithFailedFetch(h, i)
                        /\ HasAggregate(h)
                        /\ i < Len(group_links[h]) => HasOutcome(h, i + 1)
                        /\ h = "stream" =>
                               \E e \in Range(events[h]) :
                                   IsSourceError(e) /\ e.error = outcomes[h][j].cause

\* ---- C7
\* C7 (as claimed): a fatal client error during a page fetch aborts the
\* whole harvest: the failing fetch is the last call made, there is no final
\* aggregate, and the harvest ends with an error (an error response, a last
\* 'error' event).
C7_FatalErrorAbortsHarvest ==
    \A h \in Harvests :
        Done(h) =>
            \A j \in OutcomesIn(h, {"Failed"}) :
                outcomes[h][j].cause = "AuthKeyUnregisteredError" =>
                    /\ calls[h][Len(calls[h])].op = "get_participants"
                    /\ calls[h][Len(calls[h])].raised
                    /\ calls[h][Len(calls[h])].src = outcomes[h][j].src
                    /\ ~HasAggregate(h)
                    /\ IF h = "batch" THEN response[h].status = "error"
                       ELSE IsFatalError(events[h][Len(events[h])])

\* ---- C8
\* C8 (as claimed): for the same request and the same remote behaviour, the
\* contacts of the stream's 'complete' event are those of the batch response
\* (an error response holds no contact).
C8_StreamingBatchEquivalence ==
    (Done("batch") /\ Done("stream") /\ HasAggregate("stream")) =>
        Range(response["batch"].contacts) = Range(Aggregate("stream"))

\* ---- C9
NonEmptyPages(F) == Cardinality({j \in 1..Len(F) : F[j].returned > 0})

\* C9 (amended): a source paginated with no limit and no fetch error whose
\* fetches return k non-empty pages and then an empty page ends Exhausted
\* after exactly k + 1 fetches, and returns as many contacts as the returned
\* pages hold User records.
C9_PaginationTermination ==
    \A h \in Harvests :
        \A j \in OutcomesIn(h, {"Exhausted"}) :
            outcomes[h][j].limit = 0 =>
                LET F == FetchesOf(h, outcomes[h][j].src)
                IN  /\ Len(F) = NonEmptyPages(F) + 1
                    /\ F[Len(F)].returned = 0
                    /\ Len(outcomes[h][j].members) = UsersIn(F, Len(F))

\* C9 (as claimed): ... and returns as many contacts as the sum of the
\* returned page counts.
C9_ContactsEqualPageCounts ==
    \A h \in Harvests :
        \A j \in OutcomesIn(h, {"Exhausted"}) :
            outcomes[h][j].limit = 0 =>
                LET F == FetchesOf(h, outcomes[h][j].src)
                IN  /\ Len(F) = NonEmptyPages(F) + 1
                    /\ F[Len(F)].returned = 0
                    /\ Len(outcomes[h][j].members) = ReturnedIn(F, Len(F))

\* C9 witness: a source with no limit that returned at least two non-empty pages, one of
\* them holding a record that is no User, and then an empty page.
C9_Witness ==
    \E h \in Harvests :
        \E j \in OutcomesIn(h, {"Exhausted"}) :
            LET F == FetchesOf(h, outcomes[h][j].src)
            IN  /\ outcomes[h][j].limit = 0
                /\ NonEmptyPages(F) >= 2
                /\ outcomes[h][j].members # <<>>
                /\ UsersIn(F, Len(F)) < ReturnedIn(F, Len(F))

\* ---- C10
\* The limit the pagination of source i of harvest h runs or ran with
\* (-1: the source was not paginated).
LimitOfSource(h, i) ==
    IF pc[h] \in {"page", "sleep"} /\ gi[h] = i THEN pg[h].limit
    ELSE LET done == {j \in OutcomesIn(h, {"Exhausted", "LimitReached", "Failed"}) :
                          outcomes[h][j].src = i}
         IN  IF done = {} THEN -1 ELSE outcomes[h][CHOOSE j \in done : TRUE].limit

\* C10: for a source paginated with a limit L >= 1, once the returned pages
\* hold L User records or more the source ends LimitReached with exactly the
\* first L normalised records, in the remote's order, and no page is fetched
\* after the one that reached L.
C10_LimitExact ==
    \A h \in Harvests :
        /\ \A i \in 1..Len(group_links[h]) :
               LimitOfSource(h, i) >= 1 =>
                   LET F == FetchesOf(h, i)
                   IN  \A n \in 1..Len(F) : UsersIn(F, n - 1) < LimitOfSource(h, i)
        /\ \A j \in OutcomesIn(h, {"Exhausted", "LimitReached", "Failed"}) :
               LET o == outcomes[h][j]
                   F == FetchesOf(h, o.src)
               IN  (o.limit >= 1 /\ UsersIn(F, Len(F)) >= o.limit) =>
                       /\ o.state = "LimitReached"
                       /\ Len(o.members) = o.limit
                       /\ o.members = Take(ContactsOfSource(group_links[h][o.src]), o.limit)

\* C10 witness: a source that ended LimitReached on a page holding more User records
\* than the limit left room for.
C10_Witness ==
    \E h \in Harvests :
        \E j \in OutcomesIn(h, {"LimitReached"}) :
            LET F == FetchesOf(h, outcomes[h][j].src)
            IN  /\ outcomes[h][j].limit >= 1
                /\ UsersIn(F, Len(F)) > outcomes[h][j].limit
                /\ F[Len(F)].returned > F[Len(F)].limit

\* ---- C11
\* The first position of list C that holds a contact of this id.
FirstSeen(C, id) ==
    CHOOSE j \in 1..Len(C) : C[j].id = id /\ \A k \in 1..(j - 1) : C[k].id # id

\* C11: in the final aggregate of either mode no two contacts share an id;
\* the aggregate holds exactly the ids handed to the merge; for every id the
\* record kept is the first one of the accumulated list with that id (a
\* later duplicate with other field values does not replace it); and the
\* contacts are listed in first-seen order.
C11_FirstSeenMerge ==
    \A h \in Harvests :
        (Done(h) /\ HasAggregate(h)) =>
            LET A == Aggregate(h)
                C == all_contacts[h]
            IN  /\ \A j, k \in 1..Len(A) : j # k => A[j].id # A[k].id
                /\ Ids(A) = Ids(C)
                /\ \A j \in 1..Len(A) : A[j] = C[FirstSeen(C, A[j].id)]
                /\ \A j, k \in 1..Len(A) :
                       j < k => FirstSeen(C, A[j].id) < FirstSeen(C, A[k].id)

\* C11 witness: an aggregate of several contacts made from a list in which an
\* id came twice, with different field values, and not at the end.
C11_Witness ==
    \E h \in Harvests :
        /\ Done(h) /\ HasAggregate(h)
        /\ Len(Aggregate(h)) >= 3
        /\ \E j, k \in 1..Len(all_contacts[h]) :
               /\ j < k /\ k < Len(all_contacts[h])
               /\ all_contacts[h][j].id = all_contacts[h][k].id
               /\ all_contacts[h][j] # all_contacts[h][k]

\* ---- C12
\* The harvest ended with an aggregate, and so did the earlier harvest of the
\* same two sources in the other order.
BothOrdersHarvested(h) ==
    /\ Done(h) /\ HasAggregate(h)
    /\ previous[h] # <<>> /\ previous[h][1].has
    /\ Len(group_links[h]) = 2
    /\ previous[h][1].group_links = Reverse(group_links[h])

\* C12 (amended): with no member limit, harvesting [A, B] and harvesting
\* [B, A] in the same mode yield the same set of unique contact ids in the
\* final aggregate.
C12_OrderIndependentWithoutLimit ==
    \A h \in Harvests :
        (BothOrdersHarvested(h) /\ request[h].member_limit = 0) =>
            Ids(Aggregate(h)) = Ids(previous[h][1].contacts)

\* C12 (as claimed): for any request, harvesting [A, B] and harvesting
\* [B, A] in the same mode yield the same set of unique contact ids in the
\* final aggregate.
C12_OrderIndependent ==
    \A h \in Harvests :
        BothOrdersHarvested(h) => Ids(Aggregate(h)) = Ids(previous[h][1].contacts)

\* C12 witness: two overlapping sources harvested in both orders with no limit:
\* the two aggregates differ as lists (order, and the fields kept for the
\* shared id) and hold the same ids.
C12_Witness ==
    \E h \in Harvests :
        /\ BothOrdersHarvested(h) /\ request[h].member_limit = 0
        /\ Len(Aggregate(h)) >= 4
        /\ Aggregate(h) # previous[h][1].contacts
        /\ Range(Aggregate(h)) # Range(previous[h][1].contacts)
        /\ Ids(Aggregate(h)) = Ids(previous[h][1].contacts)

\* ---- C13
\* Every line of the request is blank (or there is no line).
NoSourceGiven(h) ==
    \A j \in 1..Len(request[h].group_links) :
        \A k \in 1..Len(request[h].group_links[j]) : request[h].group_links[j][k] = " "

\* C13: when the request holds no non-blank source identifier, no source
\* processing ever takes place (no resolve call, no page fetch, no
\* 'group_start', 'progress', 'group_complete' or 'complete' event), and
\* the harvest ends with an explicit error: an error response in batch mode,
\* a terminal 'error' event in streaming mode.
C13_NoSourceIsAnError ==
    \A h \in Harvests :
        NoSourceGiven(h) =>
            /\ calls[h] = <<>> /\ outcomes[h] = <<>>
            /\ \A e \in Range(events[h]) :
                   e.type \notin {"group_start", "progress", "group_complete", "complete"}
            /\ Done(h) =>
                   IF h = "batch"
                   THEN response[h].status = "error" /\ response[h].contacts = <<>>
                   ELSE /\ Len(events[h]) = 2
                        /\ IsFatalError(events[h][Len(events[h])])

\* C13 witness: both endpoints have answered a request of blank lines with a
\* connected client: status 400, and the 'error' event after 'connected'.
C13_Witness ==
    /\ Len(request["batch"].group_links) >= 1
    /\ NoSourceGiven("batch") /\ NoSourceGiven("stream")
    /\ Done("batch") /\ Done("stream")
    /\ telegram_client["batch"] = "connected_authorized"
    /\ telegram_client["stream"] = "connected_authorized"
    /\ response["batch"].code = 400
    /\ events["stream"][Len(events["stream"])].message = "No valid group links provided"

\* ---- C14
\* What a harvest does when it runs alone, as functions of its request and of
\* the remote: the pagination of one source from frame f on, and the loop
\* over the sources from the list `links` on with `acc` accumulated.
RECURSIVE PaginateAlone(_, _)
PaginateAlone(cap, f) ==
    IF LimitReached(f.limit, f.total_scraped)
    THEN [state |-> "LimitReached", members |-> f.members]
    ELSE IF FetchFailure(f.entity, f.fetches + 1) # "none"
    THEN [state |-> "Failed", members |-> <<>>]
    ELSE LET page == GetParticipants(f.entity, f.offset,
                         BatchSize(cap, f.limit, f.total_scraped))
             g == ProcessUsers(page, [members |-> f.members, batch_members |-> <<>>,
                                      total_scraped |-> f.total_scraped], f.limit)
         IN  IF page = <<>>
             THEN [state |-> "Exhausted", members |-> f.members]
             ELSE PaginateAlone(cap, [f EXCEPT !.members = g.members,
                                               !.total_scraped = g.total_scraped,
                                               !.offset = NextOffset(f.offset, page,
                                                   BatchSize(cap, f.limit, f.total_scraped)),
                                               !.fetches = f.fetches + 1])

RECURSIVE HarvestAlone(_, _, _, _)
HarvestAlone(h, links, member_limit, acc) ==
    IF links = <<>> THEN [aggregate |-> TRUE, all_contacts |-> acc]
    ELSE IF GetGroupEntityStatus(Head(links)) # 200
    THEN IF h = "batch" THEN [aggregate |-> FALSE, all_contacts |-> acc]
         ELSE HarvestAlone(h, Tail(links), member_limit, acc)
    ELSE IF BudgetUsedUp(member_limit, Len(acc))
    THEN [aggregate |-> TRUE, all_contacts |-> acc]
    ELSE LET r == PaginateAlone(IF h = "batch" THEN BatchPageCap ELSE StreamPageCap,
                      NewFrame(EntityOf(Head(links)), RemainingLimit(member_limit, Len(acc))))
         IN  IF r.state = "Failed"
             THEN IF h = "batch" THEN [aggregate |-> FALSE, all_contacts |-> acc]
                  ELSE HarvestAlone(h, Tail(links), member_limit, acc)
             ELSE HarvestAlone(h, Tail(links), member_limit, acc \o r.members)

\* The harvest of request[h] alone, with a connected client.
Alone(h) ==
    LET links == ParseGroupLinks(request[h].group_links)
    IN  IF links = <<>> THEN [aggregate |-> FALSE, all_contacts |-> <<>>]
        ELSE HarvestAlone(h, links, request[h].member_limit, <<>>)

IsPrefix(s, t) == Len(s) <= Len(t) /\ s = SubSeq(t, 1, Len(s))

\* C14: when the two harvests run interleaved, each harvest's accumulated
\* contacts are at every moment a prefix of what it accumulates when it
\* runs alone, the remaining budget its pagination runs with is the one
\* computed from its own request and its own contacts, and once ended its
\* accumulated contacts and its final aggregate are those of the harvest run
\* alone.
C14_HarvestsShareNoState ==
    \A h \in Harvests :
        /\ IsPrefix(all_contacts[h], Alone(h).all_contacts)
        /\ pc[h] \in {"page", "sleep"} =>
               pg[h].limit = RemainingLimit(request[h].member_limit, Len(all_contacts[h]))
        /\ Done(h) =>
               /\ all_contacts[h] = Alone(h).all_contacts
               /\ HasAggregate(h) = Alone(h).aggregate
               /\ HasAggregate(h) =>
                      Aggregate(h) = UniqueContacts(Alone(h).all_contacts, <<>>)

\* C14 witness: both harvests are in flight on their second source, each
\* between two page fetches, each with contacts of its first source and with
\* a remaining budget of its own.
C14_Witness ==
    /\ concurrent
    /\ pc["batch"] = "sleep" /\ pc["stream"] = "sleep"
    /\ gi["batch"] = 2 /\ gi["stream"] = 2
    /\ all_contacts["batch"] # <<>> /\ all_contacts["stream"] # <<>>
    /\ request["batch"].member_limit # request["stream"].member_limit
    /\ pg["batch"].limit # pg["stream"].limit
    /\ pg["batch"].entity = pg["stream"].entity

\* ---- C15
\* The configured page cap of the mode.
PageCap(h) == IF h = "batch" THEN BatchPageCap ELSE StreamPageCap

\* C15: every page fetch asks for a batch size of at least 1 and at most the
\* page cap of the mode (200, 50) and, when the source is paginated with a
\* limit, at most the limit minus the running total of the source (the User
\* records of its earlier pages); the size is the smaller of the two.  No
\* fetch is issued once the running total has reached the limit: the source
\* ends LimitReached.
C15_BatchSizeOfEveryFetch ==
    \A h \in Harvests :
        /\ \A i \in 1..Len(group_links[h]) :
               LET F == FetchesOf(h, i)
                   L == LimitOfSource(h, i)
               IN  \A n \in 1..Len(F) :
                       /\ F[n].limit >= 1
                       /\ F[n].limit <= PageCap(h)
                       /\ L # 0 =>
                              /\ L >= 1
                              /\ F[n].limit <= L - UsersIn(F, n - 1)
                              /\ F[n].limit = Min(PageCap(h), L - UsersIn(F, n - 1))
                       /\ L = 0 => F[n].limit = PageCap(h)
        /\ \A j \in OutcomesIn(h, {"LimitReached"}) :
               /\ outcomes[h][j].limit >= 1
               /\ Len(outcomes[h][j].members) = outcomes[h][j].limit

\* C15 witness: a source paginated with a limit above the page cap: its first
\* fetch asks for the cap, and a later one for what the limit leaves, which
\* is less.
C15_Witness ==
    \E h \in Harvests :
        \E i \in 1..Len(group_links[h]) :
            LET F == FetchesOf(h, i)
            IN  /\ Len(F) >= 2
                /\ LimitOfSource(h, i) > PageCap(h)
                /\ F[1].limit = PageCap(h)
                /\ F[2].limit = LimitOfSource(h, i) - F[1].users
                /\ F[2].limit < PageCap(h)

\* ---- C16
RequestedIn(F, n) == SumSeq([j \in 1..n |-> F[j].limit])

\* C16: at every page fetch of a source the offset sent is the sum of the
\* record counts returned by the earlier fetches of that source (0 at its
\* first fetch, whatever the earlier sources did), whatever batch sizes were
\* asked for.
C16_OffsetAccounting ==
    \A h \in Harvests :
        /\ \A i \in 1..Len(group_links[h]) :
               LET F == FetchesOf(h, i)
               IN  \A n \in 1..Len(F) : F[n].offset = ReturnedIn(F, n - 1)
        /\ pc[h] \in {"page", "sleep"} =>
               pg[h].offset = ReturnedIn(FetchesOf(h, gi[h]), Len(FetchesOf(h, gi[h])))

\* C16 witness: the second source of a list is fetched a third time, at an offset
\* that is neither the sum of the sizes asked for nor the number of contacts
\* collected, after a first source that was fetched at offsets above 0.
C16_Witness ==
    \E h \in Harvests :
        LET F == FetchesOf(h, 2)
            G == FetchesOf(h, 1)
        IN  /\ Len(G) >= 2 /\ G[Len(G)].offset > 0
            /\ Len(F) >= 3
            /\ F[1].offset = 0
            /\ F[3].offset > 0
            /\ F[3].offset # RequestedIn(F, 2)
            /\ F[3].offset # UsersIn(F, 2)

\* ---- C17
\* The positions in calls[h] of the calls `op` made for source i.
CallsAt(h, op, i) == {q \in 1..Len(calls[h]) : calls[h][q].op = op /\ calls[h][q].src = i}

\* C17: within a harvest the calls on the client are made in the caller's
\* order of the sources; when a call is made for a source, every earlier
\* source of the list has reached a terminal outcome, and a source that has
\* reached its outcome is not worked on any more; between any two page
\* fetches of the same source there is a courtesy delay.
C17_SequentialWithCourtesyDelay ==
    \A h \in Harvests :
        /\ \A q, r \in 1..Len(calls[h]) : q < r => calls[h][q].src <= calls[h][r].src
        /\ \A q \in 1..Len(calls[h]) :
               /\ calls[h][q].src <= gi[h]
               /\ \A j \in 1..(calls[h][q].src - 1) :
                      \E k \in OutcomesIn(h, {"Exhausted", "LimitReached", "Failed",
                                               "ResolveFailed"}) : outcomes[h][k].src = j
        /\ \A k \in 1..Len(outcomes[h]) :
               /\ outcomes[h][k].src = k
               /\ gi[h] > k \/ pc[h] \in {"finish", "done"}
        /\ \A i \in 1..Len(group_links[h]) :
               \A q, r \in CallsAt(h, "get_participants", i) :
                   q < r => \E d \in CallsAt(h, "sleep", i) : q < d /\ d < r

\* C17 witness: a harvest of two sources has ended after fetching each of them more
\* than once.
C17_Witness ==
    \E h \in Harvests :
        /\ Done(h) /\ Len(outcomes[h]) = 2
        /\ Cardinality(CallsAt(h, "get_participants", 1)) >= 2
        /\ Cardinality(CallsAt(h, "get_participants", 2)) >= 3
        /\ Cardinality(CallsAt(h, "sleep", 2)) >= 2

\* ---- C18
\* The ids of the 'progress' events of the source started by event p, and
\* whether that source ended with 'group_complete'.
StreamedIds(p) ==
    UNION {Ids(events["stream"][q].members) :
               q \in {r \in BracketOf("stream", p) : events["stream"][r].type = "progress"}}

EndedComplete(p) ==
    /\ \E q \in BracketOf("stream", p) : events["stream"][q].type = "group_complete"
    /\ \A q \in BracketOf("stream", p) : ~IsSourceError(events["stream"][q])

GroupStarts == {p \in 1..Len(events["stream"]) : events["stream"][p].type = "group_start"}

\* C18: in an ended stream, the ids of the contacts of the 'complete' event
\* are the ids of the 'progress' events of exactly the sources that ended
\* with 'group_complete'; what the 'progress' events of a source that ended
\* with an error held is not added by that source.
C18_AggregateOfCompletedSources ==
    (Done("stream") /\ HasAggregate("stream")) =>
        /\ Ids(Aggregate("stream")) =
               UNION {StreamedIds(p) : p \in {r \in GroupStarts : EndedComplete(r)}}
        /\ Len(all_contacts["stream"]) =
               SumSeq([q \in 1..Len(events["stream"]) |->
                          IF events["stream"][q].type = "group_complete"
                          THEN events["stream"][q].total_members ELSE 0])

\* C18 witness: an ended stream in which a source completed after 'progress'
\* events, and another ended with an error after a 'progress' event whose
\* contacts are not in the aggregate.
C18_Witness ==
    /\ Done("stream") /\ HasAggregate("stream")
    /\ \E p \in GroupStarts : EndedComplete(p) /\ StreamedIds(p) # {}
    /\ \E p \in GroupStarts :
           /\ ~EndedComplete(p)
           /\ StreamedIds(p) # {}
           /\ StreamedIds(p) \cap Ids(Aggregate("stream")) = {}

\* ---- C19
\* The 'group_start' events of the stream, in order.
SourceStarts == SelectSeq(events["stream"], LAMBDA e : e.type = "group_start")

\* C19 (as claimed): the 'progress' field of the k-th 'group_start' event is
\* k, the position of that source in the caller's list, whatever the
\* outcomes of the earlier sources; it is strictly increasing over the
\* stream and never exceeds 'total_groups'.
C19_SourceIndexOfSourceStart ==
    \A k \in 1..Len(SourceStarts) :
        /\ SourceStarts[k].progress = k
        /\ SourceStarts[k].group_url = group_links["stream"][k]
        /\ k > 1 => SourceStarts[k - 1].progress < SourceStarts[k].progress
        /\ SourceStarts[k].progress <= SourceStarts[k].total_groups
        /\ SourceStarts[k].total_groups = Len(group_links["stream"])

\* ---- C20
\* C20 (as claimed): whatever the interleaving of the requests that call
\* get_telegram_client while no connected client exists, one client only is
\* constructed and started (a start that raised aside); every request whose
\* call has ended received that client, connected and authorized, when the
\* session is good; and a client that failed its authorization check is
\* returned to no request.
C20_OneSharedClient ==
    /\ clientOutcome # "start_raises" => Len(instances) <= 1
    /\ \A c \in Callers :
           /\ gtc[c].at = "returned" =>
                  /\ gtc[c].result = 1
                  /\ instances[gtc[c].result].connected
                  /\ clientOutcome # "not_authorized"
           /\ gtc[c].at = "raised" => clientOutcome # "ok"

====
